---- MODULE Spec2Model ----
(***************************************************************************)
(* Timestamp synchronisation, remote offload and tracker-delay accounting  *)
(* of the pylot operators PIDControlOperator and ObjectTrackerOperator.    *)
(***************************************************************************)
EXTENDS Integers, Sequences, FiniteSets, TLC

(***************************************************************************)
(* Bounds of the model.                                                    *)
(***************************************************************************)
\* arrival times given to __compute_tracker_delay are 0, 5, ..., 5 * MaxArrival
MaxArrival == 4
\* detector runtimes are 0..MaxDetectorRuntime, tracker runtimes 0..MaxTrackerRuntime
MaxDetectorRuntime == 5
MaxTrackerRuntime == 8
\* calls are made while the completion time stays within this horizon
MaxCompletion == 36
\* bytes a socket may hold unread between two calls
MaxPending == 3
\* recv() returns after 0..MaxFrame bytes of the response have arrived
MaxFrame == 9
\* timestamps are 1..MaxT; the top (terminal) timestamp is above them all
MaxT == 2
\* messages an input buffer may hold
MaxBuf == 2
\* control messages, and snapshots published, in one run of CarlaOperator
MaxTicks == 3
\* the simulator's elapsed time stays within this many half milliseconds
MaxElapsed == 8

VARIABLES
    last_tracker_run_completion_time, \* ObjectTrackerOperator._last_tracker_run_completion_time
    acct,    \* the last __compute_tracker_delay call: arguments, state before, returned delay
    op,      \* which operator this instance is: "pid" or "tracker"
    flags,   \* self._flags: the remote-server switches and track_every_nth_detection
    server,  \* self._server: None or the socket it refers to
    socks,   \* every socket created so far: host, connection state, unread bytes
    call,    \* the last fetch_from_server call: what was sent, what came back, how it ended
    wm,      \* per input stream, the highest watermark received so far
    seen,    \* the timestamps some joined input stream has sent a watermark for
    toFire,  \* joins the coordinator has scheduled and not yet run, in order
    fired,   \* the timestamps on_watermark has been invoked for, in order
    joins,   \* what each of those invocations did: the branch taken and how it ended
    opState, \* "running", "terminal", "violation", "crashed" or "blocked"
    pose_msgs,      \* PIDControlOperator._pose_msgs
    waypoint_msgs,  \* PIDControlOperator._waypoint_msgs
    obstacles_msgs, \* ObjectTrackerOperator._obstacles_msgs
    frame_msgs,     \* ObjectTrackerOperator._frame_msgs
    detection_update_count, \* ObjectTrackerOperator._detection_update_count
    out,     \* what was sent on the output stream (control / obstacle tracking)
    carla_phase,     \* CarlaOperator: "new", "constructed" (__init__ done) or "running"
    carla_flags,     \* CarlaOperator._flags: carla_mode and control_agent
    elapsed,         \* the simulator's elapsed time, in half milliseconds
    snapshots,       \* world snapshots ticked and not yet given to the on_tick callback
    vehicle_control, \* the control last applied to the ego vehicle
    ticks,           \* how many times the operator called world.tick()
    controls,        \* how many control messages on_control_msg received
    published,       \* the game times publish_world_data was called with, in order
    carla_out,       \* per stream CarlaOperator writes, the messages sent on it
    runner,          \* MPCRunner: self.steer, self.throttle, self.brake, in tenths
    mpc_calls        \* per run_MPC call, the controller's output and the command stored

delayVars == <<last_tracker_run_completion_time, acct>>

clientVars == <<op, flags, server, socks, call>>

coordVars == <<wm, seen, toFire, fired, joins, opState>>

bufVars == <<pose_msgs, waypoint_msgs, obstacles_msgs, frame_msgs, detection_update_count>>

opVars == <<wm, seen, toFire, fired, joins, opState, pose_msgs, waypoint_msgs, obstacles_msgs,
            frame_msgs, detection_update_count, out>>

carlaVars == <<carla_phase, carla_flags, elapsed, snapshots, vehicle_control, ticks,
               controls, published, carla_out>>

mpcVars == <<runner, mpc_calls>>

vars == <<last_tracker_run_completion_time, acct, op, flags, server, socks, call,
          wm, seen, toFire, fired, joins, opState, pose_msgs, waypoint_msgs, obstacles_msgs,
          frame_msgs, detection_update_count, out,
          carla_phase, carla_flags, elapsed, snapshots, vehicle_control, ticks,
          controls, published, carla_out, runner, mpc_calls>>


\* no __compute_tracker_delay call has been made yet
NoCall == [called |-> FALSE]

\* the top timestamp (Timestamp(is_top=True)) and the value below every timestamp
Top == MaxT + 1
Bottom == 0

\* the streams an operator reads
Streams(o) ==
    IF o = "pid" THEN {"pose", "waypoints"}
    ELSE {"obstacles", "camera", "time_to_decision"}

AllStreams == {"pose", "waypoints", "obstacles", "camera", "time_to_decision"}

\* the operator after __init__: empty queues, count -1, nothing received
InitOperator ==
    /\ wm = [s \in AllStreams |-> Bottom]
    /\ seen = {}
    /\ toFire = <<>>
    /\ fired = <<>>
    /\ joins = <<>>
    /\ opState = "running"
    /\ pose_msgs = <<>>
    /\ waypoint_msgs = <<>>
    /\ obstacles_msgs = <<>>
    /\ frame_msgs = <<>>
    /\ detection_update_count = -1
    /\ out = <<>>

\* the streams CarlaOperator writes: five get data and a watermark at every
\* published tick, three get their content once
PerTickStreams ==
    {"pose", "ground_obstacles", "ground_traffic_lights", "ground_speed_limit_signs",
     "ground_stop_signs"}

OneShotStreams == {"vehicle_id", "open_drive", "global_trajectory"}

CarlaStreams == PerTickStreams \cup OneShotStreams

CarlaFlagSets ==
    [carla_mode : {"synchronous", "asynchronous", "asynchronous-fixed-time-step"},
     control_agent : {"pylot", "carla_auto_pilot"}]

SynchronousFlags == [carla_mode |-> "synchronous", control_agent |-> "pylot"]

\* MPCRunner.__init__: throttle, brake and steer start at -1 (-10 tenths)
NoCommand == [steer |-> -10, throttle |-> -10, brake |-> -10]

\* MPCRunner before the first run_MPC
InitMPCRunner ==
    /\ runner = NoCommand
    /\ mpc_calls = <<>>

\* the control of the ego vehicle before any apply_control, in tenths
NoControl == [steer |-> 0, throttle |-> 0, brake |-> 0]

\* CarlaOperator before __init__ runs, with flags cf
InitCarlaOperator(cf) ==
    /\ carla_phase = "new"
    /\ carla_flags = cf
    /\ elapsed = 0
    /\ snapshots = <<>>
    /\ vehicle_control = NoControl
    /\ ticks = 0
    /\ controls = 0
    /\ published = <<>>
    /\ carla_out = [s \in CarlaStreams |-> <<>>]

(***************************************************************************)
(* Remote offload client: connect_to_server and fetch_from_server of both  *)
(* operators (the two copies differ only in the flags they read and in the *)
(* request they build).                                                    *)
(***************************************************************************)
None == 0

\* self._server.recv(4096)
RecvSize == 4096

\* the flag combinations an operator can be started with
FlagSets ==
    [use_remote_pid_server : BOOLEAN,
     use_local_tracking_server : BOOLEAN,
     use_cloud_tracking_server : BOOLEAN,
     track_every_nth_detection : 1..2]

LocalFlags ==
    [use_remote_pid_server |-> FALSE,
     use_local_tracking_server |-> FALSE,
     use_cloud_tracking_server |-> FALSE,
     track_every_nth_detection |-> 1]

\* the objects that are pickled: tuples of fields; one request
\* (ControllerInput / TrackerInput) and the answers a server may give
\* (steer/throttle/brake output, tracked obstacles)
Requests == {<<1, 0>>}
Replies == {<<0>>, <<1, 0>>}

\* pickle: PROTO opcode, the number of fields, the fields, STOP opcode
PickleProto == 128
PickleStop == 46

PickleDumps(obj) == <<PickleProto, Len(obj)>> \o obj \o <<PickleStop>>

\* pickle.loads: the object up to the first complete STOP; bytes after it are
\* ignored; anything else raises (UnpicklingError, EOFError)
PickleLoads(b) ==
    IF /\ Len(b) >= 2
       /\ b[1] = PickleProto
       /\ Len(b) >= b[2] + 3
       /\ b[b[2] + 3] = PickleStop
    THEN [ok |-> TRUE, obj |-> SubSeq(b, 3, b[2] + 2)]
    ELSE [ok |-> FALSE]

\* struct.pack('>I', n): four bytes, most significant first
PackLength(n) ==
    <<(n \div 16777216) % 256, (n \div 65536) % 256, (n \div 256) % 256, n % 256>>

\* service.send_msg: the length prefix followed by the payload
SendMsg(msg) == PackLength(Len(msg)) \o msg

Min(a, b) == IF a <= b THEN a ELSE b

\* what the network and the server do during one call: connect() succeeds
\* or is refused; the request is written or the write fails; recv() raises a
\* reset or returns bytes; the server answers `reply`, with or without a
\* length prefix; `avail` bytes of it have arrived when recv() returns, and
\* the peer may close after them
NetFailures ==
    {[connect_ok |-> c, send_ok |-> s, recv |-> r, framed |-> FALSE,
      reply |-> <<0>>, avail |-> 0, closed |-> TRUE] :
        <<c, s, r>> \in {<<FALSE, TRUE, "data">>, <<TRUE, FALSE, "data">>,
                         <<TRUE, TRUE, "reset">>}}

NetReplies ==
    [connect_ok : {TRUE}, send_ok : {TRUE}, recv : {"data"},
     framed : BOOLEAN, reply : Replies,
     avail : 0..MaxFrame, closed : BOOLEAN]

NetOutcomes == NetFailures \cup NetReplies

RemoteEnabled(o, f) ==
    IF o = "pid" THEN f.use_remote_pid_server
    ELSE f.use_cloud_tracking_server \/ f.use_local_tracking_server

RemoteHost(o, f) ==
    IF o = "pid" THEN "remote_control_server_local"
    ELSE IF f.use_cloud_tracking_server THEN "remote_tracking_server_cloud"
    ELSE "remote_tracking_server_local"

\* connect_to_server: self._server is assigned the new socket before connect()
ConnectToServer(o, f, sk, connect_ok) ==
    IF ~RemoteEnabled(o, f)
    THEN [server |-> None, socks |-> sk, raised |-> FALSE, opened |-> FALSE]
    ELSE [server |-> Len(sk) + 1,
          socks |-> Append(sk, [host |-> RemoteHost(o, f),
                                state |-> IF connect_ok THEN "connected" ELSE "unconnected",
                                pending |-> <<>>]),
          raised |-> ~connect_ok,
          opened |-> TRUE]

FetchFailed(srv, sk, opened, kind, sent, rec) ==
    [server |-> srv, socks |-> sk, opened |-> opened, status |-> "error",
     kind |-> kind, result |-> <<>>, sent |-> sent, rec |-> rec]

NoRecv ==
    [framed |-> FALSE, frame |-> <<>>, data |-> <<>>, stale |-> 0,
     arrived |-> 0, closed |-> FALSE]

\* the bytes recv(4096) returns, what stays unread, and the unpickled result;
\* recv() blocks while nothing has arrived and the peer has not closed
FetchReceive(srv, sk, opened, sent, net) ==
    LET s == sk[srv]
        frame == IF net.framed THEN SendMsg(PickleDumps(net.reply))
                 ELSE PickleDumps(net.reply)
        arrived == Min(net.avail, Len(frame))
        readable == s.pending \o SubSeq(frame, 1, arrived)
        n == Min(Len(readable), RecvSize)
        data == SubSeq(readable, 1, n)
        rest == SubSeq(readable, n + 1, Len(readable))
                \o (IF net.closed THEN <<>> ELSE SubSeq(frame, arrived + 1, Len(frame)))
        after == [sk EXCEPT ![srv] = [s EXCEPT !.pending = rest,
                                                 !.state = IF net.closed THEN "broken"
                                                           ELSE "connected"]]
        rec == [framed |-> net.framed, frame |-> frame, data |-> data,
                stale |-> Len(s.pending), arrived |-> arrived, closed |-> net.closed]
        r == PickleLoads(data)
    IN  IF n = 0 /\ ~net.closed
        THEN [server |-> srv, socks |-> sk, opened |-> opened, status |-> "blocked",
              kind |-> "none", result |-> <<>>, sent |-> sent, rec |-> rec]
        ELSE IF r.ok
        THEN [server |-> srv, socks |-> after, opened |-> opened, status |-> "ok",
              kind |-> "none", result |-> r.obj, sent |-> sent, rec |-> rec]
        ELSE FetchFailed(srv, after, opened, "Unpickling", sent, rec)

\* a plausible slip: fetch_from_server that connects on every call instead
\* of only while self._server is None
FetchFromServerEager(o, f, srv, sk, request, net) ==
    LET c == ConnectToServer(o, f, sk, net.connect_ok)
        wire == SendMsg(PickleDumps(request))
    IN  IF c.raised
        THEN FetchFailed(c.server, c.socks, c.opened, "ConnectionRefused", <<>>, NoRecv)
        ELSE IF c.server = None
        THEN FetchFailed(c.server, c.socks, c.opened, "NoSocket", <<>>, NoRecv)
        ELSE IF ~net.send_ok
        THEN FetchFailed(c.server, [c.socks EXCEPT ![c.server].state = "broken"],
                         c.opened, "SendFailed", <<>>, NoRecv)
        ELSE IF net.recv = "reset"
        THEN FetchFailed(c.server, [c.socks EXCEPT ![c.server].state = "broken"],
                         c.opened, "ConnectionReset", wire, NoRecv)
        ELSE FetchReceive(c.server, c.socks, c.opened, wire, net)

\* fetch_from_server: connect if self._server is None, send the pickled
\* request with send_msg, recv once, unpickle
FetchFromServer(o, f, srv, sk, request, net) ==
    LET c == IF srv = None
             THEN ConnectToServer(o, f, sk, net.connect_ok)
             ELSE [server |-> srv, socks |-> sk, raised |-> FALSE, opened |-> FALSE]
        wire == SendMsg(PickleDumps(request))
    IN  IF c.raised
        THEN FetchFailed(c.server, c.socks, c.opened, "ConnectionRefused", <<>>, NoRecv)
        ELSE IF c.server = None
        THEN FetchFailed(c.server, c.socks, c.opened, "NoSocket", <<>>, NoRecv)
        ELSE IF c.socks[c.server].state # "connected" \/ ~net.send_ok
        THEN FetchFailed(c.server,
                         [c.socks EXCEPT ![c.server].state =
                              IF @ = "connected" THEN "broken" ELSE @],
                         c.opened, "SendFailed", <<>>, NoRecv)
        ELSE IF net.recv = "reset"
        THEN FetchFailed(c.server, [c.socks EXCEPT ![c.server].state = "broken"],
                         c.opened, "ConnectionReset", wire, NoRecv)
        ELSE FetchReceive(c.server, c.socks, c.opened, wire, net)

NoFetch == [made |-> FALSE, status |-> "none", kind |-> "none"]

\* what is remembered of a call: the state it started from and how it ended
CallRecord(request, net, r) ==
    [made |-> TRUE,
     request |-> request,
     reply |-> net.reply,
     before |-> server,
     before_state |-> IF server = None THEN "none" ELSE socks[server].state,
     prev_status |-> call.status,
     prev_kind |-> call.kind,
     opened |-> r.opened,
     status |-> r.status,
     kind |-> r.kind,
     result |-> r.result,
     sent |-> r.sent,
     rec |-> r.rec]

\* one call of fetch_from_server on its own
Fetch(request, net) ==
    LET r == FetchFromServer(op, flags, server, socks, request, net)
    IN  /\ call.status # "blocked"
        /\ r.server # None => Len(r.socks[r.server].pending) <= MaxPending
        /\ server' = r.server
        /\ socks' = r.socks
        /\ call' = CallRecord(request, net, r)
        /\ UNCHANGED <<op, flags>>
        /\ UNCHANGED delayVars
        /\ UNCHANGED opVars
        /\ UNCHANGED carlaVars
        /\ UNCHANGED mpcVars

\* the configurations of the remote switches of the two operators
ClientConfigs ==
    {c \in [op : {"pid", "tracker"}, flags : FlagSets] :
        /\ c.flags.track_every_nth_detection = 1
        /\ c.op = "pid" => ~c.flags.use_local_tracking_server
                            /\ ~c.flags.use_cloud_tracking_server
        /\ c.op = "tracker" => ~c.flags.use_remote_pid_server}

InitClient ==
    /\ \E c \in ClientConfigs : op = c.op /\ flags = c.flags
    /\ server = None
    /\ socks = <<>>
    /\ call = NoFetch
    /\ last_tracker_run_completion_time = 0
    /\ acct = NoCall
    /\ InitOperator
    /\ InitCarlaOperator(SynchronousFlags)
    /\ InitMPCRunner

NextClient ==
    \E request \in Requests, net \in NetOutcomes : Fetch(request, net)

SpecClient == InitClient /\ [][NextClient]_vars

(***************************************************************************)
(* ObjectTrackerOperator.__compute_tracker_delay                           *)
(***************************************************************************)
\* a plausible slip: the busy branch restarts the completion time at the arrival
ComputeTrackerDelayRestart(last, world_time, detector_runtime, tracker_runtime) ==
    IF world_time + detector_runtime > last
    THEN [completion |-> world_time + (detector_runtime + tracker_runtime),
          delay |-> detector_runtime + tracker_runtime]
    ELSE [completion |-> world_time + tracker_runtime,
          delay |-> tracker_runtime]

\* a plausible slip: the busy branch reports the wait without the run itself
ComputeTrackerDelayWaitOnly(last, world_time, detector_runtime, tracker_runtime) ==
    IF world_time + detector_runtime > last
    THEN [completion |-> world_time + (detector_runtime + tracker_runtime),
          delay |-> detector_runtime + tracker_runtime]
    ELSE [completion |-> last + tracker_runtime,
          delay |-> last - world_time]

\* a plausible slip: the idle branch forgets the detector runtime
ComputeTrackerDelayNoDetector(last, world_time, detector_runtime, tracker_runtime) ==
    IF world_time + detector_runtime > last
    THEN [completion |-> world_time + tracker_runtime,
          delay |-> tracker_runtime]
    ELSE [completion |-> last + tracker_runtime,
          delay |-> (last + tracker_runtime) - world_time]

\* a plausible slip: the busy branch measures the delay from the moment the
\* detector finished instead of from the arrival
ComputeTrackerDelayFromReady(last, world_time, detector_runtime, tracker_runtime) ==
    IF world_time + detector_runtime > last
    THEN [completion |-> world_time + (detector_runtime + tracker_runtime),
          delay |-> detector_runtime + tracker_runtime]
    ELSE [completion |-> last + tracker_runtime,
          delay |-> (last + tracker_runtime) - (world_time + detector_runtime)]

\* a plausible slip: the busy branch adds the detector runtime as well
ComputeTrackerDelayDetectorTwice(last, world_time, detector_runtime, tracker_runtime) ==
    IF world_time + detector_runtime > last
    THEN [completion |-> world_time + (detector_runtime + tracker_runtime),
          delay |-> detector_runtime + tracker_runtime]
    ELSE [completion |-> last + (detector_runtime + tracker_runtime),
          delay |-> (last + (detector_runtime + tracker_runtime)) - world_time]

\* the new completion time and the returned delay, as the method computes them
ComputeTrackerDelay(last, world_time, detector_runtime, tracker_runtime) ==
    IF world_time + detector_runtime > last
    THEN LET tr == detector_runtime + tracker_runtime
         IN  [completion |-> world_time + tr, delay |-> tr]
    ELSE LET completion == last + tracker_runtime
         IN  [completion |-> completion, delay |-> completion - world_time]

ArrivalTimes == {5 * k : k \in 0..MaxArrival}

\* one call of __compute_tracker_delay with arbitrary arguments
Account(world_time, detector_runtime, tracker_runtime) ==
    LET r == ComputeTrackerDelay(last_tracker_run_completion_time, world_time,
                                 detector_runtime, tracker_runtime)
    IN  /\ r.completion <= MaxCompletion
        /\ last_tracker_run_completion_time' = r.completion
        /\ acct' = [called |-> TRUE,
                    world_time |-> world_time,
                    detector_runtime |-> detector_runtime,
                    tracker_runtime |-> tracker_runtime,
                    before |-> last_tracker_run_completion_time,
                    delay |-> r.delay]
        /\ UNCHANGED clientVars
        /\ UNCHANGED opVars
        /\ UNCHANGED carlaVars
        /\ UNCHANGED mpcVars

InitDelay ==
    /\ last_tracker_run_completion_time = 0
    /\ acct = NoCall
    /\ op = "tracker"
    /\ flags = LocalFlags
    /\ server = None
    /\ socks = <<>>
    /\ call = NoFetch
    /\ InitOperator
    /\ InitCarlaOperator(SynchronousFlags)
    /\ InitMPCRunner

NextDelay ==
    \E w \in ArrivalTimes, d \in 0..MaxDetectorRuntime, t \in 0..MaxTrackerRuntime :
        Account(w, d, t)

SpecDelay == InitDelay /\ [][NextDelay]_vars


(***************************************************************************)
(* The watermark join (erdos.add_watermark_callback) and the data          *)
(* callbacks of the two operators.                                         *)
(***************************************************************************)

\* a plausible slip: every stream with a callback is passed to the join, the
\* time-to-decision stream included
WatermarkInputsAll(o) == Streams(o)

\* the input streams passed to erdos.add_watermark_callback
WatermarkInputs(o) ==
    IF o = "pid" THEN {"pose", "waypoints"} ELSE {"obstacles", "camera"}

SetMin(S) == CHOOSE x \in S : \A y \in S : x <= y

\* the join-readiness timestamp: the minimum watermark over the joined inputs
Ready(o, w) == SetMin({w[s] : s \in WatermarkInputs(o)})

RECURSIVE SortedSeq(_)
SortedSeq(S) ==
    IF S = {} THEN <<>>
    ELSE LET m == SetMin(S) IN <<m>> \o SortedSeq(S \ {m})

InSeq(x, q) == \E i \in 1..Len(q) : q[i] = x

\* the joins to run: every watermarked timestamp up to the readiness
\* timestamp that has not fired yet, in increasing order
Schedule(o, w, sn, fd) ==
    SortedSeq({t \in sn : t <= Ready(o, w) /\ ~InSeq(t, fd)})

Idle == opState = "running" /\ toFire = <<>>

\* the payloads the upstream stages send: waypoint paths of 0..2 points,
\* obstacle lists with the detector's runtime
DataPayloads(s) ==
    CASE s = "waypoints" -> 0..2
      [] s = "obstacles" -> 0..1
      [] OTHER -> {0}

BufferOf(s) ==
    CASE s = "pose" -> pose_msgs
      [] s = "waypoints" -> waypoint_msgs
      [] s = "obstacles" -> obstacles_msgs
      [] s = "camera" -> frame_msgs
      [] OTHER -> <<>>

\* on_pose_update / on_waypoints_update / on_obstacles_msg / on_frame_msg /
\* on_time_to_decision_update: append the message to the stream's queue (the
\* time-to-decision callback only logs). The producer sends data above its
\* last watermark, in non-decreasing timestamp order.
OnData(s, t, payload) ==
    LET msg == [timestamp |-> t, data |-> payload]
        q == BufferOf(s)
    IN  /\ Idle
        /\ s \in Streams(op) \ {"time_to_decision"}
        /\ t > wm[s]
        /\ q # <<>> => q[Len(q)].timestamp <= t
        /\ Len(q) < MaxBuf
        /\ pose_msgs' = IF s = "pose" THEN Append(pose_msgs, msg) ELSE pose_msgs
        /\ waypoint_msgs' = IF s = "waypoints" THEN Append(waypoint_msgs, msg)
                            ELSE waypoint_msgs
        /\ obstacles_msgs' = IF s = "obstacles" THEN Append(obstacles_msgs, msg)
                             ELSE obstacles_msgs
        /\ frame_msgs' = IF s = "camera" THEN Append(frame_msgs, msg) ELSE frame_msgs
        /\ UNCHANGED <<wm, seen, toFire, fired, joins, opState, detection_update_count, out>>
        /\ UNCHANGED clientVars
        /\ UNCHANGED delayVars
        /\ UNCHANGED carlaVars
        /\ UNCHANGED mpcVars

\* a plausible slip: a watermark below the stream's previous one silently
\* replaces it
OnWatermarkLowered(s, t) ==
    /\ Idle
    /\ s \in Streams(op)
    /\ t # wm[s]
    /\ LET w == [wm EXCEPT ![s] = t]
           sn == IF s \in WatermarkInputs(op) THEN seen \cup {t} ELSE seen
       IN  /\ wm' = w
           /\ seen' = sn
           /\ toFire' = Schedule(op, w, sn, fired)
           /\ opState' = opState
    /\ UNCHANGED <<fired, joins, out>>
    /\ UNCHANGED bufVars
    /\ UNCHANGED clientVars
    /\ UNCHANGED delayVars
    /\ UNCHANGED carlaVars
    /\ UNCHANGED mpcVars

\* a watermark arrives on an input stream: a watermark below the stream's
\* previous one is an ordering violation; otherwise the table is updated and
\* the joins that became ready are scheduled
OnWatermark(s, t) ==
    /\ Idle
    /\ s \in Streams(op)
    /\ t # wm[s]
    /\ IF t < wm[s]
       THEN /\ opState' = "violation"
            /\ UNCHANGED <<wm, seen, toFire>>
       ELSE LET w == [wm EXCEPT ![s] = t]
                sn == IF s \in WatermarkInputs(op) THEN seen \cup {t} ELSE seen
            IN  /\ wm' = w
                /\ seen' = sn
                /\ toFire' = Schedule(op, w, sn, fired)
                /\ opState' = opState
    /\ UNCHANGED <<fired, joins, out>>
    /\ UNCHANGED bufVars
    /\ UNCHANGED clientVars
    /\ UNCHANGED delayVars
    /\ UNCHANGED carlaVars
    /\ UNCHANGED mpcVars

(***************************************************************************)
(* The join callbacks: PIDControlOperator.on_watermark and                 *)
(* ObjectTrackerOperator.on_watermark.                                     *)
(***************************************************************************)

\* steer, throttle and brake of a control command, in tenths
BrakeCommand == [steer |-> 0, throttle |-> 0, brake |-> 5]
DriveCommand == [steer |-> 1, throttle |-> 7, brake |-> 0]

\* the commands the local PID computation may produce
Commands == {BrakeCommand, DriveCommand}

ControlMessage(c, timestamp) ==
    [kind |-> "data", timestamp |-> timestamp,
     steer |-> c.steer, throttle |-> c.throttle, brake |-> c.brake]

ObstaclesMessage(timestamp, obstacles, runtime) ==
    [kind |-> "data", timestamp |-> timestamp, obstacles |-> obstacles,
     runtime |-> runtime]

WatermarkMessage(timestamp) == [kind |-> "watermark", timestamp |-> timestamp]

\* convert.to_pylot_control_message: the command a controller output carries
ToPylotControlMessage(control_output, timestamp) ==
    ControlMessage(IF control_output = <<0>> THEN BrakeCommand ELSE DriveCommand,
                   timestamp)

\* convert.to_pylot_obstacle_message: the obstacles and runtime a tracker output carries
ToPylotObstacleMessage(om, ts) ==
    [timestamp |-> ts, obstacles |-> om, runtime |-> Len(om)]

\* a tracker output whose first field, the server's ok flag, is 0: the remote
\* tracker reports that it could not produce a result
ReportsFailure(tracker_output) == tracker_output[1] = 0

\* the request an operator pickles (ControllerInput / TrackerInput)
TheRequest == <<1, 0>>

\* what the network does during a join's call: a failure, no answer at all,
\* or a whole answer, with or without length prefix; nothing when the
\* operator has no remote server enabled
JoinNetOutcomes ==
    IF RemoteEnabled(op, flags)
    THEN NetFailures \cup {n \in NetReplies : n.avail \in {0, MaxFrame} /\ ~n.closed}
    ELSE {CHOOSE n \in NetFailures : TRUE}

\* the commands the local PID computation may produce in a join
JoinCommands ==
    IF op = "pid" /\ ~RemoteEnabled(op, flags) THEN Commands ELSE {BrakeCommand}

\* what the local tracker does in a join: whether it succeeds, and the
\* runtimes measured around reinitialize() and track()
TrackerRuns ==
    IF op = "tracker" /\ ~RemoteEnabled(op, flags)
    THEN [ok : BOOLEAN, reinit_runtime : 0..1, tracker_runtime : 1..2]
    ELSE {[ok |-> TRUE, reinit_runtime |-> 0, tracker_runtime |-> 1]}

\* the state a join starts from; a join that returns normally has outcome "done"
JoinBase ==
    [outcome |-> "done", error |-> "none", sent |-> <<>>,
     path |-> "none", npoints |-> -1, has_obstacles |-> FALSE,
     popped |-> <<>>, capability_failed |-> FALSE, reinit |-> FALSE,
     pose_msgs |-> pose_msgs, waypoint_msgs |-> waypoint_msgs,
     obstacles_msgs |-> obstacles_msgs, frame_msgs |-> frame_msgs,
     detection_update_count |-> detection_update_count,
     server |-> server, socks |-> socks, call |-> call,
     completion |-> last_tracker_run_completion_time, acct |-> acct]

\* an exception leaves the callback
Raised(b, error) == [b EXCEPT !.outcome = "raised", !.error = error]

\* the call a join makes to the remote server
JoinFetch(b, net) ==
    LET f == FetchFromServer(op, flags, server, socks, TheRequest, net)
    IN  [base |-> [b EXCEPT !.server = f.server, !.socks = f.socks,
                            !.call = CallRecord(TheRequest, net, f)],
         status |-> f.status, kind |-> f.kind, result |-> f.result]

\* a plausible slip: the remote call attempted whatever use_remote_pid_server says
PidControlAlwaysRemote(b0, waypoints, timestamp, net, cmd) ==
    LET f == JoinFetch([b0 EXCEPT !.npoints = waypoints, !.path = "remote"], net)
    IN  IF f.status = "ok"
        THEN [f.base EXCEPT !.sent = <<ToPylotControlMessage(f.result, timestamp)>>]
        ELSE IF f.status = "blocked"
        THEN [f.base EXCEPT !.outcome = "blocked"]
        ELSE Raised(f.base, f.kind)

\* on_watermark after the two popleft calls: the remote branch, the
\* single-waypoint brake, or the local PID with its ValueError fallback
\* (get_angle raises ValueError when no waypoint is left)
PidControl(b0, waypoints, timestamp, net, cmd) ==
    LET b == [b0 EXCEPT !.npoints = waypoints,
                        !.path = IF flags.use_remote_pid_server THEN "remote"
                                 ELSE IF waypoints = 1 THEN "single_waypoint"
                                 ELSE IF waypoints = 0 THEN "out_of_waypoints"
                                 ELSE "local_pid"]
    IN
    IF flags.use_remote_pid_server
    THEN LET f == JoinFetch(b, net)
         IN  IF f.status = "ok"
             THEN [f.base EXCEPT !.sent = <<ToPylotControlMessage(f.result, timestamp)>>]
             ELSE IF f.status = "blocked"
             THEN [f.base EXCEPT !.outcome = "blocked"]
             ELSE Raised(f.base, f.kind)
    ELSE IF waypoints = 1
    THEN [b EXCEPT !.sent = <<ControlMessage(BrakeCommand, timestamp)>>]
    ELSE LET c == IF waypoints = 0 THEN BrakeCommand ELSE cmd
         IN  [b EXCEPT !.sent = <<ControlMessage(c, timestamp)>>]

\* a plausible slip: pop() instead of popleft() on the waypoint queue
PidOnWatermarkPopNewest(timestamp, net, cmd) ==
    IF timestamp = Top THEN JoinBase
    ELSE IF pose_msgs = <<>> THEN Raised(JoinBase, "IndexError")
    ELSE LET b1 == [JoinBase EXCEPT !.pose_msgs = Tail(pose_msgs),
                                    !.popped = <<Head(pose_msgs).timestamp>>]
             n == Len(waypoint_msgs)
         IN  IF waypoint_msgs = <<>> THEN Raised(b1, "IndexError")
             ELSE PidControl([b1 EXCEPT !.waypoint_msgs = SubSeq(waypoint_msgs, 1, n - 1),
                                        !.popped = Append(@, waypoint_msgs[n].timestamp)],
                             waypoint_msgs[n].data, timestamp, net, cmd)

\* a plausible slip: the join without the early return on the top timestamp
PidOnWatermarkNoTopCheck(timestamp, net, cmd) ==
    IF pose_msgs = <<>> THEN Raised(JoinBase, "IndexError")
    ELSE LET b1 == [JoinBase EXCEPT !.pose_msgs = Tail(pose_msgs),
                                    !.popped = <<Head(pose_msgs).timestamp>>]
         IN  IF waypoint_msgs = <<>> THEN Raised(b1, "IndexError")
             ELSE PidControl([b1 EXCEPT !.waypoint_msgs = Tail(waypoint_msgs),
                                        !.popped = Append(@, Head(waypoint_msgs).timestamp)],
                             Head(waypoint_msgs).data, timestamp, net, cmd)

\* PIDControlOperator.on_watermark
PidOnWatermark(timestamp, net, cmd) ==
    IF timestamp = Top THEN JoinBase
    ELSE IF pose_msgs = <<>> THEN Raised(JoinBase, "IndexError")
    ELSE LET b1 == [JoinBase EXCEPT !.pose_msgs = Tail(pose_msgs),
                                    !.popped = <<Head(pose_msgs).timestamp>>]
         IN  IF waypoint_msgs = <<>> THEN Raised(b1, "IndexError")
             ELSE PidControl([b1 EXCEPT !.waypoint_msgs = Tail(waypoint_msgs),
                                        !.popped = Append(@, Head(waypoint_msgs).timestamp)],
                             Head(waypoint_msgs).data, timestamp, net, cmd)

\* a plausible slip: the delay accounting done before the assertion on ok, so
\* that a failed tracker run still moves the completion time
TrackerTrackAccountsFirst(b, timestamp, tracked_obstacles, detector_runtime, net, trk) ==
    LET remote == flags.use_local_tracking_server \/ flags.use_cloud_tracking_server
        f == JoinFetch(b, net)
        b1 == IF remote THEN f.base ELSE b
        msg == ToPylotObstacleMessage(f.result, timestamp)
        ok == IF remote THEN TRUE ELSE trk.ok
        obstacles == IF remote THEN msg.obstacles ELSE <<1>>
        reinit_runtime == IF remote THEN 0 ELSE trk.reinit_runtime
        tracker_runtime == (IF remote THEN msg.runtime ELSE trk.tracker_runtime)
                           + reinit_runtime
        world_time == timestamp
        d == ComputeTrackerDelay(b.completion, world_time, detector_runtime,
                                 tracker_runtime)
        failed == IF remote THEN ReportsFailure(f.result) ELSE ~trk.ok
        b2 == [b1 EXCEPT
                 !.capability_failed = failed,
                 !.completion = d.completion,
                 !.acct = [called |-> TRUE, world_time |-> world_time,
                           detector_runtime |-> detector_runtime,
                           tracker_runtime |-> tracker_runtime,
                           before |-> b.completion, delay |-> d.delay]]
    IN  IF remote /\ f.status = "blocked" THEN [b1 EXCEPT !.outcome = "blocked"]
        ELSE IF remote /\ f.status # "ok" THEN Raised(b1, f.kind)
        ELSE IF ~ok THEN Raised(b2, "AssertionError")
        ELSE [b2 EXCEPT !.sent = <<ObstaclesMessage(timestamp, obstacles, d.delay)>>]

\* the rest of the tracker's on_watermark once `reinit` is bound: the remote
\* call or the local reinitialize() and track(), the assertion on ok, the
\* delay accounting and the one ObstaclesMessage
TrackerTrack(b, timestamp, tracked_obstacles, detector_runtime, net, trk) ==
    LET remote == flags.use_local_tracking_server \/ flags.use_cloud_tracking_server
        f == JoinFetch(b, net)
        b1 == IF remote THEN f.base ELSE b
        msg == ToPylotObstacleMessage(f.result, timestamp)
        ok == IF remote THEN TRUE ELSE trk.ok
        obstacles == IF remote THEN msg.obstacles ELSE <<1>>
        reinit_runtime == IF remote THEN 0 ELSE trk.reinit_runtime
        tracker_runtime == (IF remote THEN msg.runtime ELSE trk.tracker_runtime)
                           + reinit_runtime
        world_time == timestamp
        d == ComputeTrackerDelay(b.completion, world_time, detector_runtime,
                                 tracker_runtime)
        failed == IF remote THEN ReportsFailure(f.result) ELSE ~trk.ok
    IN  IF remote /\ f.status = "blocked" THEN [b1 EXCEPT !.outcome = "blocked"]
        ELSE IF remote /\ f.status # "ok" THEN Raised(b1, f.kind)
        ELSE IF ~ok THEN Raised([b1 EXCEPT !.capability_failed = failed], "AssertionError")
        ELSE [b1 EXCEPT
                 !.capability_failed = failed,
                 !.completion = d.completion,
                 !.acct = [called |-> TRUE, world_time |-> world_time,
                           detector_runtime |-> detector_runtime,
                           tracker_runtime |-> tracker_runtime,
                           before |-> b.completion, delay |-> d.delay],
                 !.sent = <<ObstaclesMessage(timestamp, obstacles, d.delay)>>]

\* a plausible slip: the cadence test made on the count of the next message,
\* so that the first consumed message re-initialises only when n = 1
TrackerOnWatermarkOffByOne(timestamp, net, trk) ==
    IF timestamp = Top THEN JoinBase
    ELSE IF frame_msgs = <<>> THEN Raised(JoinBase, "IndexError")
    ELSE LET has == /\ Len(obstacles_msgs) > 0
                    /\ obstacles_msgs[1].timestamp = timestamp
             count == IF has THEN detection_update_count + 1
                      ELSE detection_update_count
             reinit_bound == has /\ (count + 1) % flags.track_every_nth_detection = 0
             b == [JoinBase EXCEPT
                      !.path = IF RemoteEnabled(op, flags) THEN "remote" ELSE "local",
                      !.has_obstacles = has,
                      !.reinit = reinit_bound,
                      !.popped = <<Head(frame_msgs).timestamp>>,
                      !.frame_msgs = Tail(frame_msgs),
                      !.obstacles_msgs = IF has THEN Tail(obstacles_msgs)
                                         ELSE obstacles_msgs,
                      !.detection_update_count = count]
         IN  IF ~reinit_bound THEN Raised(b, "UnboundLocalError")
             ELSE TrackerTrack(b, timestamp, <<1>>, obstacles_msgs[1].data, net, trk)

\* ObjectTrackerOperator.on_watermark: `reinit` is assigned only when the
\* head obstacles message has this timestamp and the detection count is a
\* multiple of track_every_nth_detection; reading it otherwise raises
\* UnboundLocalError
TrackerOnWatermark(timestamp, net, trk) ==
    IF timestamp = Top THEN JoinBase
    ELSE IF frame_msgs = <<>> THEN Raised(JoinBase, "IndexError")
    ELSE LET has == /\ Len(obstacles_msgs) > 0
                    /\ obstacles_msgs[1].timestamp = timestamp
             count == IF has THEN detection_update_count + 1
                      ELSE detection_update_count
             reinit_bound == has /\ count % flags.track_every_nth_detection = 0
             b == [JoinBase EXCEPT
                      !.path = IF RemoteEnabled(op, flags) THEN "remote" ELSE "local",
                      !.has_obstacles = has,
                      !.reinit = reinit_bound,
                      !.popped = <<Head(frame_msgs).timestamp>>,
                      !.frame_msgs = Tail(frame_msgs),
                      !.obstacles_msgs = IF has THEN Tail(obstacles_msgs)
                                         ELSE obstacles_msgs,
                      !.detection_update_count = count]
         IN  IF ~reinit_bound THEN Raised(b, "UnboundLocalError")
             ELSE TrackerTrack(b, timestamp, <<1>>, obstacles_msgs[1].data, net, trk)

\* the coordinator runs the next scheduled join: the operator's on_watermark,
\* then the watermark is forwarded on the output stream; an exception in the
\* callback ends the operator
Join(net, cmd, trk) ==
    /\ opState = "running"
    /\ toFire # <<>>
    /\ \E t \in {Head(toFire)} :
       \E r \in {IF op = "pid" THEN PidOnWatermark(t, net, cmd)
                 ELSE TrackerOnWatermark(t, net, trk)} :
           /\ fired' = Append(fired, t)
           /\ joins' = Append(joins, [timestamp |-> t, outcome |-> r.outcome,
                                      error |-> r.error, path |-> r.path,
                                      npoints |-> r.npoints,
                                      has_obstacles |-> r.has_obstacles,
                                      popped |-> r.popped,
                                      capability_failed |-> r.capability_failed,
                                      reinit |-> r.reinit])
           /\ toFire' = Tail(toFire)
           /\ opState' = CASE r.outcome = "raised" -> "crashed"
                           [] r.outcome = "blocked" -> "blocked"
                           [] t = Top -> "terminal"
                           [] OTHER -> "running"
           /\ out' = out \o r.sent
                     \o (IF r.outcome = "done" THEN <<WatermarkMessage(t)>> ELSE <<>>)
           /\ pose_msgs' = r.pose_msgs
           /\ waypoint_msgs' = r.waypoint_msgs
           /\ obstacles_msgs' = r.obstacles_msgs
           /\ frame_msgs' = r.frame_msgs
           /\ detection_update_count' = r.detection_update_count
           /\ server' = r.server
           /\ socks' = r.socks
           /\ call' = r.call
           /\ last_tracker_run_completion_time' = r.completion
           /\ acct' = r.acct
    /\ UNCHANGED <<op, flags, wm, seen>>
    /\ UNCHANGED carlaVars
    /\ UNCHANGED mpcVars

\* the configurations an operator can be started in
OperatorConfigs ==
    {c \in [op : {"pid", "tracker"}, flags : FlagSets] :
        /\ c.op = "pid" => /\ ~c.flags.use_local_tracking_server
                           /\ ~c.flags.use_cloud_tracking_server
                           /\ c.flags.track_every_nth_detection = 1
        /\ c.op = "tracker" => ~c.flags.use_remote_pid_server}

Init ==
    /\ \E c \in OperatorConfigs : op = c.op /\ flags = c.flags
    /\ server = None
    /\ socks = <<>>
    /\ call = NoFetch
    /\ last_tracker_run_completion_time = 0
    /\ acct = NoCall
    /\ InitOperator
    /\ InitCarlaOperator(SynchronousFlags)
    /\ InitMPCRunner

\* an upstream stage sends a data message
DataStep ==
    \E s \in AllStreams, t \in 1..MaxT : \E payload \in DataPayloads(s) :
        OnData(s, t, payload)

\* an upstream stage sends a watermark
WatermarkStep == \E s \in AllStreams, t \in 1..Top : OnWatermark(s, t)

\* the next scheduled join runs
JoinStep ==
    \E net \in JoinNetOutcomes, cmd \in JoinCommands, trk \in TrackerRuns :
        Join(net, cmd, trk)

Next == DataStep \/ WatermarkStep \/ JoinStep

Spec == Init /\ [][Next]_vars

(***************************************************************************)
(* CarlaOperator: the world messages sent at construction, run(), the      *)
(* on_tick callback publish_world_data and on_control_msg.                 *)
(***************************************************************************)

\* a plausible slip: the game time taken from the snapshot's time step
\* (delta_seconds) instead of its elapsed time
GameTimeFromDelta(snapshot) == snapshot.delta \div 2

\* game_time = int(msg.elapsed_seconds * 1000): whole milliseconds
GameTime(snapshot) == snapshot.elapsed \div 2

\* the top timestamp, above every game time
CarlaTop == (MaxElapsed \div 2) + 1

\* the time one world tick advances the simulator by, in half milliseconds
TimeSteps == 1..2

CarlaData(t) == [kind |-> "data", timestamp |-> t]

\* a plausible slip: the watermark sent before the data of its timestamp
TickMessagesWatermarkFirst(timestamp) ==
    <<WatermarkMessage(timestamp), CarlaData(timestamp)>>

\* what a published tick sends on each per-tick stream: the data message,
\* then the watermark
TickMessages(timestamp) == <<CarlaData(timestamp), WatermarkMessage(timestamp)>>

\* stream.send of msgs on every stream of S
SendOn(o, S, msgs) == [s \in CarlaStreams |-> IF s \in S THEN o[s] \o msgs ELSE o[s]]

\* _tick_simulator: world.tick() unless the mode is asynchronous
TickSimulator(cf) ==
    cf.carla_mode \notin {"asynchronous", "asynchronous-fixed-time-step"}

\* the simulator after one world tick of `step`: the snapshot is taken with
\* the control the ego vehicle has at the tick, and reaches the on_tick
\* callback only when one is registered
Ticked(w, step, listening) ==
    [elapsed |-> w.elapsed + step,
     snapshots |-> IF listening
                   THEN Append(w.snapshots, [elapsed |-> w.elapsed + step, delta |-> step,
                                             control |-> w.control])
                   ELSE w.snapshots,
     ticks |-> w.ticks,
     control |-> w.control]

\* _tick_simulator() called by the operator
TickBy(w, cf, step, listening) ==
    IF TickSimulator(cf)
    THEN [Ticked(w, step, listening) EXCEPT !.ticks = w.ticks + 1]
    ELSE w

World ==
    [elapsed |-> elapsed, snapshots |-> snapshots, ticks |-> ticks,
     control |-> vehicle_control]

\* self._driving_vehicle.apply_control(vec_control)
ApplyControl(w, vec_control) == [w EXCEPT !.control = vec_control]

\* __init__: _send_world_messages (open drive map at timestamp 0, top
\* watermark on open_drive and global_trajectory), then _spawn_actors ticks once
CarlaConstruct(step) ==
    /\ carla_phase = "new"
    /\ \E w \in {TickBy(World, carla_flags, step, FALSE)} :
          /\ elapsed' = w.elapsed
          /\ snapshots' = w.snapshots
          /\ ticks' = w.ticks
    /\ carla_out' = SendOn(SendOn(carla_out, {"open_drive"},
                                  <<CarlaData(0), WatermarkMessage(CarlaTop)>>),
                           {"global_trajectory"}, <<WatermarkMessage(CarlaTop)>>)
    /\ carla_phase' = "constructed"
    /\ UNCHANGED <<carla_flags, vehicle_control, controls, published>>
    /\ UNCHANGED <<delayVars, clientVars, opVars, mpcVars>>

\* a plausible slip: publish_world_data registered before the first tick of run()
CarlaRunListenFirst(step1, step2) ==
    /\ carla_phase = "constructed"
    /\ \E w \in {TickBy(TickBy(World, carla_flags, step1, TRUE),
                        carla_flags, step2, TRUE)} :
          /\ elapsed' = w.elapsed
          /\ snapshots' = w.snapshots
          /\ ticks' = w.ticks
    /\ carla_out' = SendOn(carla_out, {"vehicle_id"},
                           <<CarlaData(0), WatermarkMessage(CarlaTop)>>)
    /\ carla_phase' = "running"
    /\ UNCHANGED <<carla_flags, vehicle_control, controls, published>>
    /\ UNCHANGED <<delayVars, clientVars, opVars, mpcVars>>

\* run(): the vehicle id at timestamp 0 and the top watermark, one tick
\* before world.on_tick registers publish_world_data and one after
CarlaRun(step1, step2) ==
    /\ carla_phase = "constructed"
    /\ \E w \in {TickBy(TickBy(World, carla_flags, step1, FALSE),
                        carla_flags, step2, TRUE)} :
          /\ elapsed' = w.elapsed
          /\ snapshots' = w.snapshots
          /\ ticks' = w.ticks
    /\ carla_out' = SendOn(carla_out, {"vehicle_id"},
                           <<CarlaData(0), WatermarkMessage(CarlaTop)>>)
    /\ carla_phase' = "running"
    /\ UNCHANGED <<carla_flags, vehicle_control, controls, published>>
    /\ UNCHANGED <<delayVars, clientVars, opVars, mpcVars>>

\* publish_world_data: the on_tick callback, given the oldest snapshot
PublishWorldData ==
    /\ carla_phase = "running"
    /\ snapshots # <<>>
    /\ \E timestamp \in {GameTime(Head(snapshots))} :
          /\ carla_out' = SendOn(carla_out, PerTickStreams, TickMessages(timestamp))
          /\ published' = Append(published, timestamp)
    /\ snapshots' = Tail(snapshots)
    /\ UNCHANGED <<carla_phase, carla_flags, elapsed, vehicle_control, ticks, controls>>
    /\ UNCHANGED <<delayVars, clientVars, opVars, mpcVars>>

\* a plausible slip: _tick_simulator called before the control is applied
OnControlMsgTickFirst(msg, step) ==
    /\ carla_phase = "running"
    /\ controls < MaxTicks
    /\ elapsed + step <= MaxElapsed
    /\ controls' = controls + 1
    /\ \E w0 \in {TickBy(World, carla_flags, step, TRUE)} :
       \E w \in {IF carla_flags.control_agent # "carla_auto_pilot"
                 THEN ApplyControl(w0, msg) ELSE w0} :
          /\ vehicle_control' = w.control
          /\ elapsed' = w.elapsed
          /\ snapshots' = w.snapshots
          /\ ticks' = w.ticks
    /\ UNCHANGED <<carla_phase, carla_flags, published, carla_out>>
    /\ UNCHANGED <<delayVars, clientVars, opVars, mpcVars>>

\* on_control_msg: the control is applied unless the ego vehicle is on auto
\* pilot, then _tick_simulator
OnControlMsg(msg, step) ==
    /\ carla_phase = "running"
    /\ controls < MaxTicks
    /\ elapsed + step <= MaxElapsed
    /\ controls' = controls + 1
    /\ \E w0 \in {IF carla_flags.control_agent # "carla_auto_pilot"
                  THEN ApplyControl(World, msg) ELSE World} :
       \E w \in {TickBy(w0, carla_flags, step, TRUE)} :
          /\ vehicle_control' = w.control
          /\ elapsed' = w.elapsed
          /\ snapshots' = w.snapshots
          /\ ticks' = w.ticks
    /\ UNCHANGED <<carla_phase, carla_flags, published, carla_out>>
    /\ UNCHANGED <<delayVars, clientVars, opVars, mpcVars>>

\* in the asynchronous modes the simulator ticks on its own
ServerTick(step) ==
    /\ ~TickSimulator(carla_flags)
    /\ elapsed + step <= MaxElapsed
    /\ Len(published) + Len(snapshots) < MaxTicks
    /\ \E w \in {Ticked(World, step, carla_phase = "running")} :
          /\ elapsed' = w.elapsed
          /\ snapshots' = w.snapshots
    /\ UNCHANGED <<carla_phase, carla_flags, vehicle_control, ticks, controls, published,
                   carla_out>>
    /\ UNCHANGED <<delayVars, clientVars, opVars, mpcVars>>

InitCarla ==
    /\ \E cf \in CarlaFlagSets : InitCarlaOperator(cf)
    /\ op = "pid"
    /\ flags = LocalFlags
    /\ server = None
    /\ socks = <<>>
    /\ call = NoFetch
    /\ last_tracker_run_completion_time = 0
    /\ acct = NoCall
    /\ InitOperator
    /\ InitMPCRunner

ConstructStep == \E step \in TimeSteps : CarlaConstruct(step)

RunStep == \E step1, step2 \in TimeSteps : CarlaRun(step1, step2)

ControlStep == \E msg \in Commands, step \in TimeSteps : OnControlMsg(msg, step)

ServerTickStep == \E step \in TimeSteps : ServerTick(step)

NextCarla ==
    ConstructStep \/ RunStep \/ PublishWorldData \/ ControlStep \/ ServerTickStep

SpecCarla == InitCarla /\ [][NextCarla]_vars

(***************************************************************************)
(* MPCRunner (carla_wrapper/isolated_run_test.py): run_MPC keeps the last  *)
(* command while the controller returns the neutral brake command.         *)
(***************************************************************************)

\* how many run_MPC calls a behaviour makes
MaxCalls == 3

\* what get_control_instructions may return, in tenths: steer in [-1, 1],
\* throttle and brake in [0, 1]
ControllerOutputs == [steer : {-10, 0, 3}, throttle : {0, 7}, brake : {0, 5}]

\* throttle == 0 and brake == 0.5 and steer == 0
NeutralBrake == [steer |-> 0, throttle |-> 0, brake |-> 5]

\* a plausible slip: the stored command kept on a neutral output without the
\* test that one was stored before
StoredCommandNoSentinelTest(self, output) ==
    IF output.throttle = 0 /\ output.brake = 5 /\ output.steer = 0
    THEN self
    ELSE output

\* the command run_MPC stores: the previous one when the output is neutral
\* and self.throttle and self.brake are not the initial -1, else the output
StoredCommand(self, output) ==
    IF /\ output.throttle = 0 /\ output.brake = 5 /\ output.steer = 0
       /\ self.throttle # -10 /\ self.brake # -10
    THEN self
    ELSE output

\* run_MPC with the given controller output
RunMPC(output) ==
    /\ Len(mpc_calls) < MaxCalls
    /\ \E c \in {StoredCommand(runner, output)} :
          /\ runner' = c
          /\ mpc_calls' = Append(mpc_calls, [output |-> output, stored |-> c])
    /\ UNCHANGED <<delayVars, clientVars, opVars, carlaVars>>

InitMPC ==
    /\ InitMPCRunner
    /\ op = "pid"
    /\ flags = LocalFlags
    /\ server = None
    /\ socks = <<>>
    /\ call = NoFetch
    /\ last_tracker_run_completion_time = 0
    /\ acct = NoCall
    /\ InitOperator
    /\ InitCarlaOperator(SynchronousFlags)

NextMPC == \E output \in ControllerOutputs : RunMPC(output)

SpecMPC == InitMPC /\ [][NextMPC]_vars

(***************************************************************************)
(* Claims about the watermark join and the two operators (checked under    *)
(* Spec).                                                                  *)
(***************************************************************************)

\* the input streams each operator is said to join on
JoinedInputs == IF op = "pid" THEN {"pose", "waypoints"} ELSE {"obstacles", "camera"}

\* the data messages on the output stream that carry timestamp t
DataAt(t) == {k \in 1..Len(out) : out[k].kind = "data" /\ out[k].timestamp = t}

WatermarksAt(t) == {k \in 1..Len(out) : out[k].kind = "watermark" /\ out[k].timestamp = t}

\* C1: on_watermark fires for a timestamp T exactly once, only after every
\* joined input stream (pose + waypoints, obstacles + camera) has sent a
\* watermark >= T, and the firings are in strictly increasing order: the
\* fired timestamps increase strictly, each is covered by the watermark of
\* every joined input, and once the coordinator is idle every watermarked
\* timestamp that all joined inputs have passed has fired.
C1_JoinOncePerTimestampInOrder ==
    /\ \A i, j \in 1..Len(fired) : i < j => fired[i] < fired[j]
    /\ \A i \in 1..Len(fired) : \A s \in JoinedInputs : wm[s] >= fired[i]
    /\ (opState \in {"running", "terminal"} /\ toFire = <<>>) =>
          \A t \in seen : (\A s \in JoinedInputs : wm[s] >= t) => InSeq(t, fired)

\* C1 witness: two joins have fired while the joined inputs stood at
\* different watermarks.
C1_Witness ==
    /\ Len(fired) >= 2
    /\ opState = "running"
    /\ \E s1, s2 \in JoinedInputs : wm[s1] < wm[s2]

\* C2: PIDControlOperator sends exactly one ControlMessage with timestamp T
\* for every non-terminal join T in which a branch was taken (remote offload,
\* single-waypoint brake, local PID, out-of-waypoints fallback).
C2_OneControlMessagePerJoin ==
    op = "pid" =>
        \A i \in 1..Len(joins) :
            (joins[i].timestamp # Top /\ joins[i].path # "none")
                => Cardinality(DataAt(joins[i].timestamp)) = 1

\* C3: ObjectTrackerOperator sends exactly one ObstaclesMessage with
\* timestamp T for every non-terminal join T that found its camera frame,
\* also when the detector sent no obstacles message for T.
C3_OneObstaclesMessagePerJoin ==
    op = "tracker" =>
        \A i \in 1..Len(joins) :
            (joins[i].timestamp # Top /\ joins[i].path # "none")
                => Cardinality(DataAt(joins[i].timestamp)) = 1

\* C4: in every configuration, a control join for a non-terminal timestamp
\* whose waypoint path has 1 or 0 points sends exactly one control message,
\* with steer 0, throttle 0 and brake 0.5, and the output watermark advances
\* (stated for the joins that return).
C4_ShortPathBrakes ==
    op = "pid" =>
        \A i \in 1..Len(joins) :
            (/\ joins[i].timestamp # Top
             /\ joins[i].path # "none"
             /\ joins[i].npoints <= 1
             /\ joins[i].outcome = "done")
                => /\ Cardinality(DataAt(joins[i].timestamp)) = 1
                   /\ \A k \in DataAt(joins[i].timestamp) :
                          /\ out[k].steer = 0
                          /\ out[k].throttle = 0
                          /\ out[k].brake = 5
                   /\ Cardinality(WatermarksAt(joins[i].timestamp)) = 1

\* C5: the terminal join fires at most once, it is the last join, it sends
\* nothing itself, and once it has fired the terminal watermark is on the
\* output stream exactly once, as its last entry; before it the terminal
\* watermark is not on the output at all.
C5_TerminalJoinOnce ==
    /\ Cardinality({i \in 1..Len(fired) : fired[i] = Top}) <= 1
    /\ \A i \in 1..Len(fired) : fired[i] = Top => i = Len(fired)
    /\ DataAt(Top) = {}
    /\ InSeq(Top, fired) =>
          /\ toFire = <<>>
          /\ Cardinality(WatermarksAt(Top)) = 1
          /\ out[Len(out)] = WatermarkMessage(Top)
    /\ ~InSeq(Top, fired) => WatermarksAt(Top) = {}

\* C5 witness: the terminal join has fired after at least one other join.
C5_Witness ==
    /\ opState = "terminal"
    /\ Len(fired) >= 2
    /\ fired[Len(fired)] = Top

(***************************************************************************)
(* Claims about the delay accountant (checked under SpecDelay).            *)
(***************************************************************************)

\* C6: across any sequence of calls, with arrival times in any order and
\* non-negative runtimes, _last_tracker_run_completion_time never decreases
\* from one call to the next.
C6_LastCompletionMonotone ==
    [][last_tracker_run_completion_time' >= last_tracker_run_completion_time]_vars

\* C6 witness: a call that arrived earlier than the previous one (out of
\* order) and found the tracker busy has been accounted.
C6_Witness ==
    /\ acct.called
    /\ acct.before > 0
    /\ acct.world_time + acct.detector_runtime <= acct.before
    /\ acct.world_time < acct.before
    /\ acct.tracker_runtime > 0

\* C7: the delay returned by every call is at least the tracker runtime
\* (ownCost) passed to that call.
C7_DelayAtLeastOwnCost ==
    acct.called => acct.delay >= acct.tracker_runtime

\* C7 witness: a call that queued behind a previous invocation returned.
C7_Witness ==
    /\ acct.called
    /\ acct.before > 0
    /\ acct.world_time + acct.detector_runtime <= acct.before
    /\ acct.tracker_runtime > 0
    /\ acct.detector_runtime > 0

\* C8: every call agrees with the reference single-server model: with
\* readyTime = arrivalTime + upstreamCost, an idle server gives
\* lastCompletion' = readyTime + ownCost and delay = upstreamCost + ownCost,
\* a busy one lastCompletion' = lastCompletion + ownCost and
\* delay = lastCompletion' - arrivalTime; and arrivals at 0, 10, 20 with
\* upstreamCost 5 and ownCost 8 leave lastCompletion at 13, 23, 33 with
\* delay 13 each time.
C8_MatchesReferenceModel ==
    acct.called =>
        LET readyTime == acct.world_time + acct.detector_runtime
        IN  /\ readyTime > acct.before =>
                /\ last_tracker_run_completion_time = readyTime + acct.tracker_runtime
                /\ acct.delay = acct.detector_runtime + acct.tracker_runtime
            /\ ~(readyTime > acct.before) =>
                /\ last_tracker_run_completion_time = acct.before + acct.tracker_runtime
                /\ acct.delay = last_tracker_run_completion_time - acct.world_time
            /\ (acct.detector_runtime = 5 /\ acct.tracker_runtime = 8) =>
                /\ (acct.world_time = 0 /\ acct.before = 0) =>
                      (acct.delay = 13 /\ last_tracker_run_completion_time = 13)
                /\ (acct.world_time = 10 /\ acct.before = 13) =>
                      (acct.delay = 13 /\ last_tracker_run_completion_time = 23)
                /\ (acct.world_time = 20 /\ acct.before = 23) =>
                      (acct.delay = 13 /\ last_tracker_run_completion_time = 33)

\* C8 witness: the third call of the worked example (arrival 20 after
\* completions 13 and 23) has returned.
C8_Witness ==
    /\ acct.called
    /\ acct.world_time = 20
    /\ acct.detector_runtime = 5
    /\ acct.tracker_runtime = 8
    /\ acct.before = 23
    /\ last_tracker_run_completion_time = 33

(***************************************************************************)
(* Claims about the remote offload client (checked under SpecClient).      *)
(***************************************************************************)

\* the last call failed on a short read, a short write or a connection reset
TransportFailure(status, kind, rec) ==
    /\ status = "error"
    /\ \/ kind \in {"SendFailed", "ConnectionReset"}
       \/ kind = "Unpickling" /\ Len(rec.data) < rec.stale + Len(rec.frame)

\* C9: a call that fails on a short read/write or a connection reset leaves
\* the connection invalidated (self._server is None again), and the call
\* made after such a failure opens a fresh connection before it sends.
C9_FailureInvalidatesConnection ==
    call.made =>
        /\ TransportFailure(call.status, call.kind, call.rec) => server = None
        /\ (call.prev_status = "error"
              /\ call.prev_kind \in {"SendFailed", "ConnectionReset"}) => call.opened

\* C10: a response is read as a 4-byte big-endian length prefix followed by
\* exactly that many bytes and only then unpickled: a frame that arrives
\* whole (at once or in pieces) yields the object the server sent, and a frame
\* cut short by the peer fails the call without returning an object.
C10_ResponseReadByLengthPrefix ==
    (call.made /\ call.status # "blocked" /\ call.rec.framed /\ call.rec.stale = 0) =>
        LET truncated == call.rec.closed /\ call.rec.arrived < Len(call.rec.frame)
        IN  /\ truncated => (call.status = "error" /\ call.result = <<>>)
            /\ ~truncated => (call.status = "ok" /\ call.result = call.reply)

(***************************************************************************)
(* Claims about offload failures, tracker failures and the local path      *)
(* (checked under Spec).                                                   *)
(***************************************************************************)

\* the exceptions a failed offload call raises
OffloadErrors == {"ConnectionRefused", "SendFailed", "ConnectionReset", "Unpickling"}

\* C11: a join whose offload call fails (connection refused, reset,
\* malformed response) or whose response never arrives does not block and
\* still completes with one result message for its timestamp.
C11_OffloadFailureFallsBack ==
    /\ opState # "blocked"
    /\ \A i \in 1..Len(joins) :
          (joins[i].outcome = "blocked" \/ joins[i].error \in OffloadErrors)
              => /\ joins[i].outcome = "done"
                 /\ Cardinality(DataAt(joins[i].timestamp)) = 1

\* C13: a tracker join in which the tracking capability, local or remote,
\* reported that it could not produce a result fails hard: the join raises
\* and no ObstaclesMessage carries its timestamp.
C13_TrackerFailureIsHard ==
    op = "tracker" =>
        \A i \in 1..Len(joins) :
            joins[i].capability_failed
                => /\ joins[i].outcome = "raised"
                   /\ DataAt(joins[i].timestamp) = {}

\* C14: with no remote-server flag enabled, no socket is ever created, no
\* call to a server is ever made, and every join takes a local path.
C14_NoFlagNoSocket ==
    (/\ ~flags.use_remote_pid_server
     /\ ~flags.use_local_tracking_server
     /\ ~flags.use_cloud_tracking_server)
        => /\ server = None
           /\ socks = <<>>
           /\ ~call.made
           /\ \A i \in 1..Len(joins) :
                 /\ joins[i].path # "remote"
                 /\ joins[i].error \notin OffloadErrors \cup {"NoSocket"}

\* C14 witness: with every remote flag off, two joins have completed and
\* sent their results.
C14_Witness ==
    /\ ~flags.use_remote_pid_server
    /\ ~flags.use_local_tracking_server
    /\ ~flags.use_cloud_tracking_server
    /\ Len(joins) >= 2
    /\ \A i \in 1..Len(joins) : joins[i].outcome = "done" /\ joins[i].path # "none"
    /\ Len(out) >= 4

\* C16: a watermark lower than the one already seen on its stream is
\* reported as an ordering violation: the watermark table is not lowered,
\* nothing is scheduled or fired by it, and no join fires afterwards.
C16_LowerWatermarkIsViolation ==
    [][/\ \A s \in AllStreams, t \in 1..Top :
              (OnWatermark(s, t) /\ t < wm[s])
                  => /\ opState' = "violation"
                     /\ wm' = wm
                     /\ toFire' = toFire
                     /\ fired' = fired
                     /\ out' = out
       /\ \A s \in AllStreams : wm'[s] >= wm[s]
       /\ opState = "violation" => (opState' = "violation" /\ fired' = fired)]_vars

\* C16 witness: a stream whose watermark had passed 1 was fed a lower
\* watermark after a join had fired.
C16_Witness ==
    /\ opState = "violation"
    /\ Len(fired) >= 1
    /\ \E s \in Streams(op) : wm[s] >= 2

\* C19: every message a non-terminal join pops unconditionally (pose and
\* waypoints; camera frame) carries the join's timestamp.
C19_PoppedMessageCarriesT ==
    \A i \in 1..Len(joins) :
        \A k \in 1..Len(joins[i].popped) : joins[i].popped[k] = joins[i].timestamp

ConfiguredHosts ==
    IF op = "pid"
    THEN {h \in {"remote_control_server_local"} : flags.use_remote_pid_server}
    ELSE {h \in {"remote_tracking_server_cloud"} : flags.use_cloud_tracking_server}
         \cup {h \in {"remote_tracking_server_local"} : flags.use_local_tracking_server}

\* C12: no connection exists before the first call; the first call of a
\* client with a configured server opens exactly one connection, to a
\* configured host; a later call made while no failure has been detected
\* reuses that connection and opens no other.
C12_LazyPersistentConnection ==
    /\ ~call.made => (server = None /\ socks = <<>>)
    /\ (call.made /\ call.prev_status = "none" /\ ConfiguredHosts # {}) =>
          /\ call.before = None
          /\ call.opened
          /\ Len(socks) = 1
          /\ server = 1
          /\ socks[1].host \in ConfiguredHosts
    /\ (call.made /\ call.before # None /\ call.prev_status = "ok") =>
          /\ ~call.opened
          /\ server = call.before

\* C12 witness: a second call has been answered over the connection the
\* first one opened.
C12_Witness ==
    /\ call.made
    /\ call.before # None
    /\ call.prev_status = "ok"
    /\ call.status = "ok"
    /\ ~call.opened

\* C15: a request is sent on a connection only when the response to the
\* previous request on it has been read completely.
C15_OneCallInFlight ==
    (call.made /\ call.sent # <<>>) => call.rec.stale = 0

(***************************************************************************)
(* Claims about CarlaOperator (checked under SpecCarla).                   *)
(***************************************************************************)

\* C17: on every stream CarlaOperator writes, nothing is sent with a
\* timestamp lower than a watermark sent before it on that stream, and
\* nothing at all is sent after the stream's top watermark.
C17_NoLateDataOnCarlaStreams ==
    \A s \in CarlaStreams :
        \A i \in 1..Len(carla_out[s]) :
            carla_out[s][i].kind = "watermark" =>
                /\ \A j \in (i + 1)..Len(carla_out[s]) :
                      carla_out[s][j].timestamp >= carla_out[s][i].timestamp
                /\ carla_out[s][i].timestamp = CarlaTop => i = Len(carla_out[s])

\* C17 witness: the operator is running, the one-shot streams are closed and
\* two ticks whose game times are equal after truncation have been published.
C17_Witness ==
    /\ carla_phase = "running"
    /\ Len(carla_out["vehicle_id"]) = 2
    /\ Len(published) >= 2
    /\ published[1] = published[2]

\* C18: every published tick sends, on each of the five per-tick streams,
\* exactly one data message with the tick's timestamp and then exactly one
\* watermark with that timestamp: each stream holds, tick by tick in
\* publication order, the data message followed by the watermark.
C18_DataThenWatermarkPerTick ==
    \A s \in PerTickStreams :
        /\ Len(carla_out[s]) = 2 * Len(published)
        /\ \A k \in 1..Len(published) :
              /\ carla_out[s][2 * k - 1] = [kind |-> "data", timestamp |-> published[k]]
              /\ carla_out[s][2 * k] = [kind |-> "watermark", timestamp |-> published[k]]

\* C18 witness: two ticks with different game times have been published.
C18_Witness ==
    /\ Len(published) >= 2
    /\ published[1] < published[2]

(***************************************************************************)
(* Further claims about the tracker's buffers (checked under Spec).        *)
(***************************************************************************)

\* C21: once the tracker's join for a non-terminal timestamp T has completed,
\* neither the frame buffer nor the obstacles buffer holds a message with a
\* timestamp <= T, so no message stays at the head of the obstacles buffer
\* for good.
C21_TrackerBuffersDrained ==
    op = "tracker" =>
        \A i \in 1..Len(joins) :
            (joins[i].outcome = "done" /\ joins[i].timestamp # Top) =>
                /\ \A k \in 1..Len(frame_msgs) :
                      frame_msgs[k].timestamp > joins[i].timestamp
                /\ \A k \in 1..Len(obstacles_msgs) :
                      obstacles_msgs[k].timestamp > joins[i].timestamp

(***************************************************************************)
(* Further claims about the delay accountant (checked under SpecDelay).    *)
(***************************************************************************)

\* C26: after every call, in both branches, the arrival time plus the
\* returned delay equals the new _last_tracker_run_completion_time.
C26_ArrivalPlusDelayIsCompletion ==
    acct.called => acct.world_time + acct.delay = last_tracker_run_completion_time

\* C26 witness: a call in each situation is covered; this one found the
\* tracker busy, arrived before the previous completion and had a detector
\* runtime of its own.
C26_Witness ==
    /\ acct.called
    /\ acct.world_time + acct.detector_runtime < acct.before
    /\ acct.detector_runtime > 0
    /\ acct.tracker_runtime > 0
    /\ acct.world_time > 0

\* C27: the returned delay is at least detector runtime + tracker runtime
\* (upstreamCost + ownCost), and equal to it exactly when the detector
\* finished after, or at, the previous completion.
C27_DelayAtLeastBothCosts ==
    acct.called =>
        /\ acct.delay >= acct.detector_runtime + acct.tracker_runtime
        /\ (acct.delay = acct.detector_runtime + acct.tracker_runtime)
               <=> (acct.world_time + acct.detector_runtime >= acct.before)

\* C27 witness: a call whose detector finished exactly at the previous
\* completion time, with both runtimes positive.
C27_Witness ==
    /\ acct.called
    /\ acct.before > 0
    /\ acct.world_time + acct.detector_runtime = acct.before
    /\ acct.detector_runtime > 0
    /\ acct.tracker_runtime > 0

(***************************************************************************)
(* Further claims about the tracker's joins (checked under Spec).          *)
(***************************************************************************)

\* C22: a tracker join that emits an ObstaclesMessage updates
\* _last_tracker_run_completion_time by exactly one application of
\* __compute_tracker_delay and the message carries the delay that update
\* returned; every other step (a data callback, a watermark, the terminal
\* join, a join that fails before emitting) leaves the completion time and
\* the accounting unchanged.
C22_DelayUpdatedOncePerEmittingJoin ==
    [][op = "tracker" =>
         LET emitted == {k \in (Len(out) + 1)..Len(out') : out'[k].kind = "data"}
         IN  IF emitted # {}
             THEN /\ Cardinality(emitted) = 1
                  /\ \A k \in emitted :
                        \E u \in {ComputeTrackerDelay(last_tracker_run_completion_time,
                                                      out'[k].timestamp,
                                                      acct'.detector_runtime,
                                                      acct'.tracker_runtime)} :
                            /\ acct'.called
                            /\ acct'.before = last_tracker_run_completion_time
                            /\ acct'.world_time = out'[k].timestamp
                            /\ acct'.delay = u.delay
                            /\ out'[k].runtime = u.delay
                            /\ last_tracker_run_completion_time' = u.completion
             ELSE /\ last_tracker_run_completion_time' = last_tracker_run_completion_time
                  /\ acct' = acct]_vars

\* C22 witness: a join emitted an ObstaclesMessage and moved the completion
\* time, and a later join failed in the tracker before emitting.
C22_Witness ==
    /\ op = "tracker"
    /\ Len(joins) >= 2
    /\ joins[1].outcome = "done"
    /\ joins[Len(joins)].outcome = "raised"
    /\ joins[Len(joins)].error = "AssertionError"
    /\ acct.called
    /\ last_tracker_run_completion_time > 0
    /\ \E k \in 1..Len(out) : out[k].kind = "data" /\ out[k].runtime = acct.delay

C24_ControlThenOneTick ==
    [][/\ controls' # controls =>
             /\ controls' = controls + 1
             /\ carla_flags.carla_mode = "synchronous" => ticks' = ticks + 1
             /\ carla_flags.carla_mode \in {"asynchronous", "asynchronous-fixed-time-step"}
                    => ticks' = ticks
       /\ \A msg \in Commands, step \in TimeSteps :
             OnControlMsg(msg, step) =>
                 \E applied \in {IF carla_flags.control_agent = "carla_auto_pilot"
                                 THEN vehicle_control ELSE msg} :
                     /\ vehicle_control' = applied
                     /\ IF carla_flags.carla_mode = "synchronous"
                        THEN /\ elapsed' = elapsed + step
                             /\ snapshots' = Append(snapshots,
                                                    [elapsed |-> elapsed + step,
                                                     delta |-> step,
                                                     control |-> applied])
                        ELSE /\ elapsed' = elapsed
                             /\ snapshots' = snapshots]_vars

\* C24 witness: in synchronous mode a second control message, different from
\* the first, has been applied and the tick it caused saw it.
C24_Witness ==
    /\ carla_flags.carla_mode = "synchronous"
    /\ carla_flags.control_agent = "pylot"
    /\ controls = 2
    /\ ticks = 5
    /\ Len(snapshots) >= 2
    /\ snapshots[Len(snapshots)].control = vehicle_control
    /\ snapshots[Len(snapshots) - 1].control \in Commands \ {vehicle_control}

\* C25: in synchronous mode the number of world snapshots published (or
\* handed to the on_tick callback) never exceeds 1 + the number of control
\* messages received: the next world data is not published before a control
\* message answering the previous one arrived.
C25_LockStep ==
    carla_flags.carla_mode = "synchronous" =>
        /\ Len(published) + Len(snapshots) <= 1 + controls
        /\ Len(published) <= 1 + controls

\* C25 witness: in synchronous mode two control messages were received and
\* exactly three snapshots published.
C25_Witness ==
    /\ carla_flags.carla_mode = "synchronous"
    /\ controls = 2
    /\ Len(published) = 3
    /\ snapshots = <<>>

(***************************************************************************)
(* Claims about MPCRunner (checked under SpecMPC).                         *)
(***************************************************************************)

\* C28: run_MPC keeps the stored command unchanged when the controller
\* returns the neutral brake command and a command was stored before, and
\* otherwise stores the controller's output; hence the stored command is the
\* neutral brake command only if every output so far was the neutral one.
C28_HoldLastCommand ==
    /\ \A i \in 1..Len(mpc_calls) :
          IF mpc_calls[i].output = NeutralBrake /\ i > 1
          THEN mpc_calls[i].stored = mpc_calls[i - 1].stored
          ELSE mpc_calls[i].stored = mpc_calls[i].output
    /\ runner = IF mpc_calls = <<>> THEN NoCommand
                ELSE mpc_calls[Len(mpc_calls)].stored
    /\ runner = NeutralBrake =>
          /\ mpc_calls # <<>>
          /\ \A i \in 1..Len(mpc_calls) : mpc_calls[i].output = NeutralBrake

\* C28 witness: the first output was neutral and was stored, then a command
\* was stored, then a neutral output came and the command was held.
C28_Witness ==
    /\ Len(mpc_calls) = 3
    /\ mpc_calls[1].output = NeutralBrake
    /\ mpc_calls[1].stored = NeutralBrake
    /\ mpc_calls[2].output # NeutralBrake
    /\ mpc_calls[3].output = NeutralBrake
    /\ runner = mpc_calls[2].output

====
